---- MODULE Spec2Model ----
(***************************************************************************)
(* A model of the daily puzzle server of the bee repository:               *)
(*   - the letter codec (words/src/lib.rs),                                *)
(*   - the puzzle generator ConfigProvider::fetch and                      *)
(*     the timezone keyed cache ConfigProvider::get_config                 *)
(*     (server/src/puzzle_config.rs),                                      *)
(*   - the Word of the puzzle (puzzle-config/src/lib.rs) and               *)
(*   - the Board of the page with its submit handler and the timezone      *)
(*     text of get_current_tz (frontend/src/main.rs), and                  *)
(*   - the loader of the words table (utils/build-word-db/src/main.rs).    *)
(*                                                                         *)
(* Characters are their ASCII codes ('a' = 97 .. 'z' = 122), words are     *)
(* sequences of characters, bitmasks are non-negative integers and the     *)
(* bit operations are computed bit by bit.  Instants are whole hours on    *)
(* the UTC time line, a FixedOffset is a whole number of hours.            *)
(***************************************************************************)
EXTENDS Integers, Sequences, FiniteSets, TLC

\* ------------------------------------------------------------------------
\* Bounds of the model
\* ------------------------------------------------------------------------

\* The generator's random source draws among the first LowLetters letters
\* of the alphabet ...
LowLetters == 6
\* ... and the last HighLetters letters.
HighLetters == 1
\* Concurrent callers of get_config.
NumProcs == 2
\* Hours the clock runs on after the server started.
MaxElapsed == 2
\* Shards of the DashMap.
NumShards == 1
\* Longest text Word::score is called with.
MaxWordLen == 8
MaxGuesses == 2
MaxLines == 3

\* ------------------------------------------------------------------------
\* words/src/lib.rs: the letter codec
\* ------------------------------------------------------------------------

REFERENCE_ORD == 97

\* 'a' ..= 'z'
LowerCase == REFERENCE_ORD .. (REFERENCE_ORD + 25)

RECURSIVE BitAnd(_, _)
BitAnd(x, y) ==
    IF x = 0 \/ y = 0 THEN 0
    ELSE (IF x % 2 = 1 /\ y % 2 = 1 THEN 1 ELSE 0) + 2 * BitAnd(x \div 2, y \div 2)

RECURSIVE BitOr(_, _)
BitOr(x, y) ==
    IF x = 0 THEN y
    ELSE IF y = 0 THEN x
    ELSE (IF x % 2 = 1 \/ y % 2 = 1 THEN 1 ELSE 0) + 2 * BitOr(x \div 2, y \div 2)

\* 1 << n
Shl1(n) == 2 ^ n

RECURSIVE ilog2(_)
ilog2(n) == IF n < 2 THEN 0 ELSE 1 + ilog2(n \div 2)

LETTERS == [i \in 1 .. 26 |-> REFERENCE_ORD + i - 1]

\* letters::bitmask
letters_bitmask_mut(letter) == Shl1(letter - REFERENCE_ORD) + 1

letters_bitmask(letter) == Shl1(letter - REFERENCE_ORD)

\* letters::from_bitmask (LETTERS is indexed from 0 in the source)
letters_from_bitmask(bm) == LETTERS[ilog2(bm) + 1]

\* bitmask: the fold of letters::bitmask over the characters of the word
RECURSIVE bitmask(_)
bitmask(word) ==
    IF word = << >> THEN 0
    ELSE BitOr(bitmask(SubSeq(word, 1, Len(word) - 1)), letters_bitmask(word[Len(word)]))

\* vec_from_bitmask: the offsets 0 .. 25 in ascending order, filtered
RECURSIVE VecFrom(_, _)
VecFrom(bm, offset) ==
    IF offset = 26 THEN << >>
    ELSE LET mask == BitAnd(bm, Shl1(offset))
         IN  (IF mask > 0 THEN << letters_from_bitmask(mask) >> ELSE << >>)
             \o VecFrom(bm, offset + 1)

vec_from_bitmask_mut(bm) == VecFrom(bm, 1)

vec_from_bitmask(bm) == VecFrom(bm, 0)

\* ------------------------------------------------------------------------
\* The corpus: the rows of the words table
\* ------------------------------------------------------------------------

\* upsert_words: a row stores the word with its precomputed letter mask
WordRowOf(word) == [word |-> word, letter_mask |-> bitmask(word)]

\* "face", "faced", "decaf", "deed", "daze", "fazed", "abed", and the
\* entry "abcdefz", which uses seven letters
CorpusWords ==
    { << 102, 97, 99, 101 >>,
      << 102, 97, 99, 101, 100 >>,
      << 100, 101, 99, 97, 102 >>,
      << 100, 101, 101, 100 >>,
      << 100, 97, 122, 101 >>,
      << 102, 97, 122, 101, 100 >>,
      << 97, 98, 101, 100 >>,
      << 97, 98, 99, 100, 101, 102, 122 >> }

Corpus == { WordRowOf(w) : w \in CorpusWords }

\* ------------------------------------------------------------------------
\* puzzle-config/src/lib.rs
\* ------------------------------------------------------------------------

\* Word::new (the chars field is the set of the word's characters)
NewWord(word, is_pangram) ==
    [word |-> word, is_pangram |-> is_pangram,
     chars |-> { word[i] : i \in 1 .. Len(word) }]

\* Word::score
score_mut(w) == Len(w.word) + (IF w.is_pangram THEN 7 ELSE 0)

score(w) ==
    IF Len(w.word) = 4 THEN 1
    ELSE Len(w.word) + (IF w.is_pangram THEN 7 ELSE 0)

\* impl PartialEq for Word: equality is on the text alone
WordEqMut(w1, w2) == w1.word = w2.word /\ w1.is_pangram = w2.is_pangram

WordEq(w1, w2) == w1.word = w2.word

\* impl Hash for Word: the hash of the text; the text stands for its hash
WordHash(w) == w.word

\* HashSet<Word>::contains: an element with the hash of x that equals x
HashSetContains(set, x) ==
    \E w \in set : WordHash(w) = WordHash(x) /\ WordEq(w, x)

\* Word::contains
contains(w, letter) == \E i \in 1 .. Len(w.word) : w.word[i] = letter

\* ------------------------------------------------------------------------
\* server/src/puzzle_config.rs: ConfigProvider::fetch, the pure parts
\* ------------------------------------------------------------------------

\* The letters the random source is followed on.
DrawChars ==
    { c \in LowerCase : c - REFERENCE_ORD < LowLetters
                        \/ REFERENCE_ORD + 25 - c < HighLetters }

\* The range random_range samples: 'a'..required_char after
\* random_bool(0.5) gave true, ((required_char as u8 + 1) as char)..='z'
\* after it gave false
RangeOf(required_char, below) ==
    IF below THEN { c \in LowerCase : c < required_char }
    ELSE { c \in LowerCase : c >= required_char + 1 }

\* letter_mask |= words::letters::bitmask(&letter)
OrLetter(letter_mask, letter) == BitOr(letter_mask, letters_bitmask(letter))

\* The parameter $1 of the query: letter_mask | required_mask
QueryMaskMut(letter_mask, required_mask) == letter_mask

QueryMask(letter_mask, required_mask) == BitOr(letter_mask, required_mask)

\* The query: select word, letter_mask & $1 = $1 as is_pangram
\*            from words where letter_mask & $1 = letter_mask
QueryWords(corpus, p1) ==
    { [word |-> row.word, is_pangram |-> BitAnd(row.letter_mask, p1) = p1] :
        row \in { r \in corpus : BitAnd(r.letter_mask, p1) = r.letter_mask } }

\* words.into_iter().map(|w| Word::new(&w.word, w.is_pangram)).collect():
\* the rows of the table carry distinct words, so no two collected words
\* are equal
CollectWords(rows) == { NewWord(r.word, r.is_pangram) : r \in rows }

RECURSIVE SumScores(_)
SumScores(ws) ==
    IF ws = {} THEN 0
    ELSE LET w == CHOOSE x \in ws : TRUE
         IN  score(w) + SumScores(ws \ {w})

\* (max_score * f).trunc() as u32 for the fraction pct / 100.  On every
\* max_score below 5000 the f32 product truncates to this quotient.
TruncMul(max_score, pct) == (max_score * pct) \div 100

ScoreBucketsOf(max_score) ==
    << << "Beginner",   TruncMul(max_score, 0) >>,
       << "Good Start", TruncMul(max_score, 2) >>,
       << "Moving Up",  TruncMul(max_score, 5) >>,
       << "Good",       TruncMul(max_score, 8) >>,
       << "Solid",      TruncMul(max_score, 15) >>,
       << "Nice",       TruncMul(max_score, 25) >>,
       << "Great",      TruncMul(max_score, 40) >>,
       << "Amazing",    TruncMul(max_score, 50) >>,
       << "Genius",     TruncMul(max_score, 70) >> >>

\* The PuzzleConfig built when the query returned rows
BuildConfig(rows, required_mask, letter_mask) ==
    LET valid_words == CollectWords(rows)
        max_score   == SumScores(valid_words)
    IN  [ valid_words     |-> valid_words,
          score_buckets   |-> ScoreBucketsOf(max_score),
          required_letter |-> letters_from_bitmask(required_mask),
          other_letters   |-> vec_from_bitmask(letter_mask) ]

\* if words.len() > 0
Accepts(rows) == Cardinality(rows) > 0

NoConfig == [none |-> TRUE]

\* A panic of the running thread
Panicked == [panicked |-> TRUE]

\* ------------------------------------------------------------------------
\* The generator, one random draw at a time
\* ------------------------------------------------------------------------

VARIABLES
    g_pc,            \* where fetch is: "start", "required", "others", "query",
                     \* "returned", "error", "panicked"
    required_char,   \* the local required_char (0: not drawn yet)
    required_mask,   \* the local required_mask
    letter_mask,     \* the local letter_mask
    drawn,           \* iterations of for _ in 0..6 done
    g_result         \* the PuzzleConfig returned, or NoConfig

genVars == << g_pc, required_char, required_mask, letter_mask, drawn, g_result >>

VARIABLES
    clock,           \* Utc::now(), in hours
    shardOf,         \* the shard of the DashMap each key hashes to
    cache,           \* the DashMap: offset -> CachedConfig or NoEntry
    readers,         \* shard -> the callers that hold a read guard on it
    pc,              \* caller -> "idle", "acquire", "query", "insert", "holding"
    tz,              \* caller -> the offset of its call
    now,             \* caller -> the local now of get_config
    ttl,             \* caller -> the local ttl of get_config
    f_required_mask, \* caller -> required_mask of its fetch
    f_letter_mask,   \* caller -> letter_mask of its fetch
    config,          \* caller -> the config its fetch returned
    ret,             \* caller -> the PuzzleConfig read through its ConfigHandle
    outcome,         \* caller -> how its call went: "none", "hit", "published"
                     \*           (no entry before), "replaced", "error", "panic"
    lastDone         \* offset -> the config and now of the last call that
                     \*           returned (kept for sequential callers only)

cacheVars == << clock, shardOf, cache, readers, pc, tz, now, ttl, f_required_mask,
                f_letter_mask, config, ret, outcome, lastDone >>

VARIABLES
    b_config,        \* Board: the PuzzleConfig the page loaded, or NoConfig
    b_word,          \* Board: the text of the word input
    b_taken,         \* Board: the word the last submit took from the input
    b_submitted,     \* the stored list of submitted words
    b_score,         \* the stored score
    b_error          \* the validation error shown, or "None"

boardVars == << b_config, b_word, b_taken, b_submitted, b_score, b_error >>

VARIABLES
    arg,             \* the argument a library function is called with
    res              \* what the call returned, or NoResult

pureVars == << arg, res >>

VARIABLES
    rng,             \* the random source: seed -> the passes it gives
    runs             \* the generator runs made so far

seedVars == << rng, runs >>

VARIABLES
    w_file,          \* build-word-db: the lines of the words file
    w_batch_size,    \* build-word-db: opts.batch_size
    w_pos,           \* build-word-db: the lines read so far
    w_line,          \* build-word-db: the String line
    w_batch,         \* build-word-db: the Vec batch
    w_db,            \* build-word-db: the rows of the words table
    w_pc             \* build-word-db: "idle", "reading", "done", "failed"

buildVars == << w_file, w_batch_size, w_pos, w_line, w_batch, w_db, w_pc >>

restVars == << boardVars, pureVars, seedVars, buildVars >>

vars == << genVars, cacheVars, restVars >>

NoResult == [none |-> TRUE]

\* build-word-db is not run
BuildIdle ==
    /\ w_file = << >>
    /\ w_batch_size = 0
    /\ w_pos = 0
    /\ w_line = << >>
    /\ w_batch = << >>
    /\ w_db = {}
    /\ w_pc = "idle"

\* No page is open, no library call is made and no run is recorded
RestIdle ==
    /\ BuildIdle
    /\ b_config = NoConfig
    /\ b_word = << >>
    /\ b_taken = << >>
    /\ b_submitted = << >>
    /\ b_score = 0
    /\ b_error = "None"
    /\ arg = NoResult
    /\ res = NoResult
    /\ rng = << >>
    /\ runs = {}

locals == << tz, now, ttl, f_required_mask, f_letter_mask, config >>

GenInit ==
    /\ g_pc = "start"
    /\ required_char = 0
    /\ required_mask = 0
    /\ letter_mask = 0
    /\ drawn = 0
    /\ g_result = NoConfig

\* self.pool.acquire().await succeeds; rng is seeded, letter_mask = 0
GenAcquire ==
    /\ g_pc = "start"
    /\ g_pc' = "required"
    /\ letter_mask' = 0
    /\ UNCHANGED << required_char, required_mask, drawn, g_result, cacheVars, restVars >>

\* self.pool.acquire().await fails: fetch returns Err(DbError)
GenAcquireFail ==
    /\ g_pc = "start"
    /\ g_pc' = "error"
    /\ UNCHANGED << required_char, required_mask, letter_mask, drawn, g_result, cacheVars, restVars >>

\* let required_char = rng.random_range('a'..='z'); required_mask = ...
GenDrawRequired ==
    /\ g_pc = "required"
    /\ \E c \in DrawChars :
         /\ required_char' = c
         /\ required_mask' = letters_bitmask(c)
    /\ drawn' = 0
    /\ g_pc' = "others"
    /\ UNCHANGED << letter_mask, g_result, cacheVars, restVars >>

\* One iteration of for _ in 0..6: rng.random_bool(0.5) picks the range,
\* random_range panics on an empty range
GenDrawOther ==
    /\ g_pc = "others"
    /\ drawn < 6
    /\ \E below \in BOOLEAN :
         LET range == RangeOf(required_char, below)
         IN  IF range = {}
             THEN /\ g_pc' = "panicked"
                  /\ UNCHANGED << letter_mask, drawn >>
             ELSE /\ \E letter \in range \cap DrawChars :
                        letter_mask' = OrLetter(letter_mask, letter)
                  /\ drawn' = drawn + 1
                  /\ g_pc' = IF drawn + 1 = 6 THEN "query" ELSE "others"
    /\ UNCHANGED << required_char, required_mask, g_result, cacheVars, restVars >>

\* The query returns its rows; with rows the config is returned, without
\* the loop starts over
GenQuery ==
    /\ g_pc = "query"
    /\ LET rows == QueryWords(Corpus, QueryMask(letter_mask, required_mask))
       IN  IF Accepts(rows)
           THEN /\ g_result' = BuildConfig(rows, required_mask, letter_mask)
                /\ g_pc' = "returned"
           ELSE /\ g_pc' = "required"
                /\ UNCHANGED g_result
    /\ UNCHANGED << required_char, required_mask, letter_mask, drawn, cacheVars, restVars >>

\* The query fails: fetch returns Err(DbError)
GenQueryFail ==
    /\ g_pc = "query"
    /\ g_pc' = "error"
    /\ UNCHANGED << required_char, required_mask, letter_mask, drawn, g_result, cacheVars, restVars >>

GenNext ==
    \/ GenAcquire
    \/ GenAcquireFail
    \/ GenDrawRequired
    \/ GenDrawOther
    \/ GenQuery
    \/ GenQueryFail

\* ------------------------------------------------------------------------
\* server/src/puzzle_config.rs: the cache, ConfigProvider::get_config
\* ------------------------------------------------------------------------

Procs == 1 .. NumProcs

Shards == 1 .. NumShards

\* The FixedOffsets the callers ask for, in hours east of UTC
Offsets == { -3, 2 }

\* Duration::hours(24)
HoursPerDay == 24

\* The server starts three hours before midnight UTC
StartHour == HoursPerDay - 3

\* next_midnight: now advanced by 24 hours, then the local time of day
\* set to 00:00:00.0 in the offset of now
next_midnight_mut(now_, offset) ==
    LET local == now_ + offset
    IN  (local - (local % HoursPerDay)) - offset

next_midnight(now_, offset) ==
    LET local == now_ + HoursPerDay + offset
    IN  (local - (local % HoursPerDay)) - offset

NoEntry == [none |-> TRUE]

\* CachedConfig { config, ttl }
CachedConfig(config_, ttl_) == [config |-> config_, ttl |-> ttl_]

\* One pass of the random source through the loop head: the required
\* letter, then for each of the six iterations the outcome of random_bool
\* and the letter random_range gave
Pick(below, letter) == [below |-> below, letter |-> letter]

\* 'c', then d e f a d e;  'b', then a z a z a z;
\* 'a', then b and an empty range
DrawCandidates ==
    { [required |-> 99,
       picks |-> << Pick(FALSE, 100), Pick(FALSE, 101), Pick(FALSE, 102),
                    Pick(TRUE, 97), Pick(FALSE, 100), Pick(FALSE, 101) >>],
      [required |-> 98,
       picks |-> << Pick(TRUE, 97), Pick(FALSE, 122), Pick(TRUE, 97),
                    Pick(FALSE, 122), Pick(TRUE, 97), Pick(FALSE, 122) >>],
      [required |-> 97,
       picks |-> << Pick(FALSE, 98), Pick(TRUE, 97), Pick(FALSE, 98),
                    Pick(FALSE, 98), Pick(FALSE, 98), Pick(FALSE, 98) >>] }

\* A pass the random source can give: every letter lies in its range
ValidDraw(d) ==
    /\ d.required \in LowerCase
    /\ Len(d.picks) = 6
    /\ \A i \in 1 .. 6 :
         \/ RangeOf(d.required, d.picks[i].below) = {}
         \/ d.picks[i].letter \in RangeOf(d.required, d.picks[i].below)

DrawSeqs == { d \in DrawCandidates : ValidDraw(d) }

\* random_range panics on an empty range
DrawPanics(d) == \E i \in 1 .. 6 : RangeOf(d.required, d.picks[i].below) = {}

\* for _ in 0..6 { ... letter_mask |= words::letters::bitmask(&letter) }
RECURSIVE DrawOthers(_, _)
DrawOthers(letter_mask_, picks) ==
    IF picks = << >> THEN letter_mask_
    ELSE DrawOthers(OrLetter(letter_mask_, Head(picks).letter), Tail(picks))

\* ConfigProvider::new: an empty DashMap
CacheInit ==
    /\ clock = StartHour
    /\ shardOf \in { f \in [Offsets -> Shards] : f[2] = 1 }
    /\ cache = [o \in Offsets |-> NoEntry]
    /\ readers = [s \in Shards |-> {}]
    /\ pc = [p \in Procs |-> "idle"]
    /\ tz = [p \in Procs |-> 0]
    /\ now = [p \in Procs |-> 0]
    /\ ttl = [p \in Procs |-> 0]
    /\ f_required_mask = [p \in Procs |-> 0]
    /\ f_letter_mask = [p \in Procs |-> 0]
    /\ config = [p \in Procs |-> NoConfig]
    /\ ret = [p \in Procs |-> NoConfig]
    /\ outcome = [p \in Procs |-> "none"]
    /\ lastDone = [o \in Offsets |-> NoEntry]

\* Time passes
Tick ==
    /\ clock < StartHour + MaxElapsed
    /\ clock' = clock + 1
    /\ UNCHANGED << shardOf, cache, readers, pc, locals, ret, outcome, lastDone, genVars, restVars >>

\* cached.ttl >= now
StillValidMut(entry, now_) == entry.ttl > now_

StillValidAlways(entry, now_) == TRUE

StillValid(entry, now_) == entry.ttl >= now_

\* The locals of a call that is over
ClearLocals(p) ==
    /\ tz' = [tz EXCEPT ![p] = 0]
    /\ now' = [now EXCEPT ![p] = 0]
    /\ ttl' = [ttl EXCEPT ![p] = 0]
    /\ f_required_mask' = [f_required_mask EXCEPT ![p] = 0]
    /\ f_letter_mask' = [f_letter_mask EXCEPT ![p] = 0]
    /\ config' = [config EXCEPT ![p] = NoConfig]

\* Whether the read guard taken by self.cache.get(tz) is still held when
\* the if let has failed: the guard is a temporary of the condition
KeepsGuardMut(entry) == entry # NoEntry

KeepsGuard(entry) == FALSE

\* get_config up to its first await: now is read, the cache is looked up
\* under the shard's read lock, and a live entry is handed out as a
\* ConfigHandle that keeps the read guard; otherwise ttl is computed and
\* fetch starts
Call(p, offset) ==
    /\ pc[p] = "idle"
    /\ tz' = [tz EXCEPT ![p] = offset]
    /\ now' = [now EXCEPT ![p] = clock]
    /\ LET entry == cache[offset]
       IN  IF entry # NoEntry /\ StillValid(entry, clock)
           THEN /\ pc' = [pc EXCEPT ![p] = "holding"]
                /\ readers' = [readers EXCEPT ![shardOf[offset]] = @ \cup {p}]
                /\ ret' = [ret EXCEPT ![p] = entry.config]
                /\ outcome' = [outcome EXCEPT ![p] = "hit"]
                /\ UNCHANGED ttl
           ELSE /\ pc' = [pc EXCEPT ![p] = "acquire"]
                /\ readers' = IF KeepsGuard(entry)
                              THEN [readers EXCEPT ![shardOf[offset]] = @ \cup {p}]
                              ELSE readers
                /\ ttl' = [ttl EXCEPT ![p] = next_midnight(clock, offset)]
                /\ ret' = [ret EXCEPT ![p] = NoConfig]
                /\ outcome' = [outcome EXCEPT ![p] = "none"]
    /\ UNCHANGED << clock, shardOf, cache, f_required_mask, f_letter_mask, config, lastDone, genVars, restVars >>

\* A call that ends without a handle: Err(DbError), or a panic of the task
EndCallMut(p, how) ==
    /\ pc' = [pc EXCEPT ![p] = "idle"]
    /\ outcome' = [outcome EXCEPT ![p] = how]
    /\ ClearLocals(p)
    /\ cache' = [cache EXCEPT ![tz[p]] = CachedConfig(NoConfig, ttl[p])]
    /\ UNCHANGED << clock, shardOf, readers, ret, lastDone, genVars, restVars >>

EndCall(p, how) ==
    /\ pc' = [pc EXCEPT ![p] = "idle"]
    /\ outcome' = [outcome EXCEPT ![p] = how]
    /\ ClearLocals(p)
    /\ UNCHANGED << clock, shardOf, cache, readers, ret, lastDone, genVars, restVars >>

\* The head of the loop of fetch, up to the query being sent
LoopHead(p, d, letter_mask_) ==
    IF DrawPanics(d)
    THEN EndCall(p, "panic")
    ELSE /\ pc' = [pc EXCEPT ![p] = "query"]
         /\ f_required_mask' = [f_required_mask EXCEPT ![p] = letters_bitmask(d.required)]
         /\ f_letter_mask' = [f_letter_mask EXCEPT ![p] = DrawOthers(letter_mask_, d.picks)]
         /\ UNCHANGED << clock, shardOf, cache, readers, tz, now, ttl, config, ret,
                         outcome, lastDone, genVars, restVars >>

\* fetch: pool.acquire().await gives a connection; the random source is
\* seeded, letter_mask = 0 and the first pass of the loop sends its query
FetchAcquire(p) ==
    /\ pc[p] = "acquire"
    /\ \E d \in DrawSeqs : LoopHead(p, d, 0)

\* fetch: pool.acquire().await fails, get_config returns the error
FetchAcquireFail(p) ==
    /\ pc[p] = "acquire"
    /\ EndCall(p, "error")

\* fetch: the query returns rows; fetch returns the config built of them
FetchQueryRows(p) ==
    /\ pc[p] = "query"
    /\ LET rows == QueryWords(Corpus, QueryMask(f_letter_mask[p], f_required_mask[p]))
       IN  /\ Accepts(rows)
           /\ config' = [config EXCEPT ![p] =
                           BuildConfig(rows, f_required_mask[p], f_letter_mask[p])]
    /\ pc' = [pc EXCEPT ![p] = "insert"]
    /\ UNCHANGED << clock, shardOf, cache, readers, tz, now, ttl, f_required_mask,
                    f_letter_mask, ret, outcome, lastDone, genVars, restVars >>

\* fetch: the query returns no row; the loop starts over and sends the
\* next query
FetchQueryEmpty(p) ==
    /\ pc[p] = "query"
    /\ ~ Accepts(QueryWords(Corpus, QueryMask(f_letter_mask[p], f_required_mask[p])))
    /\ \E d \in DrawSeqs : LoopHead(p, d, f_letter_mask[p])

\* fetch: the query fails, get_config returns the error
FetchQueryFail(p) ==
    /\ pc[p] = "query"
    /\ EndCall(p, "error")

\* The write lock of a shard is granted when no guard on it is held
\* (the caller's own read guard, if it kept one, blocks it as well)
WriteLockFreeMut(s) == TRUE

WriteLockFree(s) == readers[s] = {}

\* The entry get_config publishes
NewEntryMut(p) ==
    IF cache[tz[p]] = NoEntry THEN CachedConfig(config[p], ttl[p])
    ELSE CachedConfig(config[p], cache[tz[p]].ttl)

NewEntry(p) == CachedConfig(config[p], ttl[p])

\* self.cache.entry(tz).insert_entry(CachedConfig { config, ttl })
\*     .into_ref().downgrade().map(..): under the shard's write lock the
\* entry is replaced, then the lock is downgraded to the read guard of the
\* ConfigHandle that is returned
Insert(p) ==
    /\ pc[p] = "insert"
    /\ WriteLockFree(shardOf[tz[p]])
    /\ cache' = [cache EXCEPT ![tz[p]] = NewEntry(p)]
    /\ readers' = [readers EXCEPT ![shardOf[tz[p]]] = @ \cup {p}]
    /\ pc' = [pc EXCEPT ![p] = "holding"]
    /\ ret' = [ret EXCEPT ![p] = NewEntry(p).config]
    /\ outcome' = [outcome EXCEPT ![p] =
                      IF cache[tz[p]] = NoEntry THEN "published" ELSE "replaced"]
    /\ UNCHANGED << clock, shardOf, locals, lastDone, genVars, restVars >>

\* handlers::puzzle_config: the body is serialised from the handle and the
\* handle is dropped, which releases its read guard
ReleaseCore(p) ==
    /\ pc[p] = "holding"
    /\ readers' = [s \in Shards |-> readers[s] \ {p}]
    /\ pc' = [pc EXCEPT ![p] = "idle"]
    /\ ClearLocals(p)
    /\ ret' = [ret EXCEPT ![p] = NoConfig]
    /\ outcome' = [outcome EXCEPT ![p] = "none"]
    /\ UNCHANGED << clock, shardOf, cache, genVars, restVars >>

Release(p) == ReleaseCore(p) /\ UNCHANGED lastDone

\* The same, with the returned config and its clock reading remembered
ReleaseSeq(p) ==
    /\ ReleaseCore(p)
    /\ lastDone' = [lastDone EXCEPT ![tz[p]] = [config |-> ret[p], now |-> now[p]]]

CacheNext ==
    \/ Tick
    \/ \E p \in Procs, offset \in Offsets : Call(p, offset)
    \/ \E p \in Procs : FetchAcquire(p)
    \/ \E p \in Procs : FetchAcquireFail(p)
    \/ \E p \in Procs : FetchQueryRows(p)
    \/ \E p \in Procs : FetchQueryEmpty(p)
    \/ \E p \in Procs : FetchQueryFail(p)
    \/ \E p \in Procs : Insert(p)
    \/ \E p \in Procs : Release(p)

\* One caller that makes its calls one after the other
SeqNext ==
    \/ Tick
    \/ \E offset \in Offsets : Call(1, offset)
    \/ FetchAcquire(1)
    \/ FetchAcquireFail(1)
    \/ FetchQueryRows(1)
    \/ FetchQueryEmpty(1)
    \/ FetchQueryFail(1)
    \/ Insert(1)
    \/ ReleaseSeq(1)

\* A new ConfigProvider, no fetch running
Init == CacheInit /\ GenInit /\ RestIdle

\* The cache under concurrent callers
Spec == Init /\ [][CacheNext]_vars

\* The cache under one sequential caller
SpecSeq == Init /\ [][SeqNext]_vars

\* The generator alone, on a cache nobody calls
InitGen == GenInit /\ CacheInit /\ shardOf = [o \in Offsets |-> 1] /\ RestIdle

SpecGen == InitGen /\ [][GenNext]_vars

\* ------------------------------------------------------------------------
\* Properties of the cache
\* ------------------------------------------------------------------------

Fetching(p) == pc[p] \in { "acquire", "query" }

Published(p) == pc[p] = "holding" /\ outcome[p] \in { "published", "replaced" }

\* C1: a call of get_config(offset) that finds an entry for the offset with
\* expires_at >= now returns that entry's config, does not start the
\* generator and leaves the cache as it is.
C1_HitServesCached ==
    [][ \A p \in Procs :
          ( /\ pc[p] = "idle"
            /\ pc'[p] # "idle"
            /\ cache[tz'[p]] # NoEntry
            /\ cache[tz'[p]].ttl >= now'[p] )
          => ( /\ pc'[p] = "holding"
               /\ outcome'[p] = "hit"
               /\ ret'[p] = cache[tz'[p]].config
               /\ config'[p] = NoConfig
               /\ f_letter_mask'[p] = 0
               /\ cache' = cache ) ]_vars

\* A call was served from an entry that expires at the very now of the call.
C1_Witness ==
    \E p \in Procs :
        /\ pc[p] = "holding"
        /\ outcome[p] = "hit"
        /\ cache[tz[p]].ttl = now[p]

\* Two instants lie in the same local day of the offset
SameLocalDay(t1, t2, offset) ==
    (t1 + offset) \div HoursPerDay = (t2 + offset) \div HoursPerDay

\* C2: two sequential get_config(offset) calls whose clock readings fall in
\* the same local day of the offset return configs with the same
\* required_letter, other_letters and valid_words.
C2_SameDaySameConfig ==
    ( /\ pc[1] = "holding"
      /\ lastDone[tz[1]] # NoEntry
      /\ SameLocalDay(lastDone[tz[1]].now, now[1], tz[1]) )
    => ( /\ ret[1].required_letter = lastDone[tz[1]].config.required_letter
         /\ ret[1].other_letters = lastDone[tz[1]].config.other_letters
         /\ ret[1].valid_words = lastDone[tz[1]].config.valid_words )

\* C3: a call that missed publishes under its offset an entry that expires
\* at the next local midnight strictly after its now, and returns the
\* config of that entry.
C3_PublishesNextMidnight ==
    \A p \in Procs :
        Published(p) =>
            LET e == cache[tz[p]]
            IN  /\ e # NoEntry
                /\ now[p] < e.ttl
                /\ e.ttl <= now[p] + HoursPerDay
                /\ (e.ttl + tz[p]) % HoursPerDay = 0
                /\ e.config = config[p]
                /\ ret[p] = e.config

\* A call found an expired entry and has replaced it.
C3_Witness ==
    \E p \in Procs :
        /\ pc[p] = "holding"
        /\ outcome[p] = "replaced"
        /\ cache[tz[p]].ttl > clock

\* C4: every caller that holds a returned config of an offset reads the
\* config of the offset's entry, so all configs returned for one entry are
\* identical, also when several calls raced on the uncached offset.
C4_ReadersAgree ==
    \A p \in Procs :
        pc[p] = "holding" =>
            /\ cache[tz[p]] # NoEntry
            /\ ret[p] # NoConfig
            /\ ret[p] = cache[tz[p]].config
            /\ \A q \in Procs :
                 (pc[q] = "holding" /\ tz[q] = tz[p]) => ret[q] = ret[p]

\* Two calls raced on an uncached offset: one has published and returned,
\* the other one has its config ready and waits to publish it.
C4_Witness ==
    \E p, q \in Procs :
        /\ p # q
        /\ tz[p] = tz[q]
        /\ pc[p] = "holding"
        /\ outcome[p] = "published"
        /\ pc[q] = "insert"
        /\ cache[tz[p]].ttl >= clock

\* C5: the expires_at stored for an offset never decreases from one
\* publication to the next.
C5_TtlNeverDecreases ==
    [][ \A o \in Offsets :
          cache[o] # NoEntry =>
              (cache'[o] # NoEntry /\ cache'[o].ttl >= cache[o].ttl) ]_vars

\* All four fields of a config come from one query: the words are the rows
\* of the query for the config's letters and the buckets are those of the
\* words' scores
FullyFormed(cfg) ==
    LET rows == QueryWords(Corpus, bitmask(<< cfg.required_letter >> \o cfg.other_letters))
    IN  /\ cfg.valid_words = CollectWords(rows)
        /\ cfg.valid_words # {}
        /\ Len(cfg.score_buckets) = 9
        /\ cfg.score_buckets = ScoreBucketsOf(SumScores(cfg.valid_words))

\* C6: every config in the cache or in a reader's hands is the complete
\* result of one generator run, and the entry a call published pairs that
\* call's config with that call's expires_at.
C6_NoPartialEntry ==
    /\ \A o \in Offsets :
         cache[o] # NoEntry =>
             /\ FullyFormed(cache[o].config)
             /\ (cache[o].ttl + o) % HoursPerDay = 0
    /\ \A p \in Procs :
         pc[p] = "holding" =>
             /\ FullyFormed(ret[p])
             /\ Published(p) => cache[tz[p]] = CachedConfig(config[p], ttl[p])

\* A reader holds the config that another caller's run published.
C6_Witness ==
    \E p \in Procs :
        /\ pc[p] = "holding"
        /\ outcome[p] = "hit"
        /\ \E w \in ret[p].valid_words : w.is_pangram
        /\ \E q \in Procs : q # p /\ pc[q] = "insert" /\ tz[q] = tz[p]

\* C7: a call that is suspended in generation holds no guard on any shard,
\* and a call for another offset with a live entry can start and be served.
C7_NoLockAcrossFetch ==
    \A p \in Procs :
        Fetching(p) =>
            /\ \A s \in Shards : p \notin readers[s]
            /\ \A q \in Procs \ {p}, o \in Offsets \ {tz[p]} :
                 ( /\ pc[q] = "idle"
                   /\ cache[o] # NoEntry
                   /\ StillValid(cache[o], clock) )
                 => ENABLED Call(q, o)

\* While one call waits for its query, a later call for another offset has
\* been served from the cache.
C7_Witness ==
    \E p, q \in Procs :
        /\ pc[p] = "query"
        /\ pc[q] = "holding"
        /\ outcome[q] = "hit"
        /\ tz[q] # tz[p]
        /\ now[q] > now[p]

\* ------------------------------------------------------------------------
\* Properties of the generator
\* ------------------------------------------------------------------------

\* The letters of a word, as a set
LettersOf(word) == { word[i] : i \in 1 .. Len(word) }

\* The letters that participate in a config
ConfigLetters(cfg) ==
    {cfg.required_letter} \cup LettersOf(cfg.other_letters)

\* C8: in every PuzzleConfig the generator returns, other_letters holds
\* exactly 6 pairwise distinct letters, none of them the required letter.
C8_SevenDistinctLetters ==
    g_pc = "returned" =>
        /\ Len(g_result.other_letters) = 6
        /\ Cardinality(LettersOf(g_result.other_letters)) = 6
        /\ g_result.required_letter \notin LettersOf(g_result.other_letters)

\* C9: every PuzzleConfig the generator returns has a word with
\* is_pangram = TRUE in valid_words.
C9_HasPangram ==
    g_pc = "returned" => \E w \in g_result.valid_words : w.is_pangram

\* C10: in every PuzzleConfig the generator returns, valid_words is exactly
\* the set of corpus words written with the config's letters only, and a
\* word is flagged is_pangram exactly when it uses every one of them.
C10_ValidWordsExact ==
    g_pc = "returned" =>
        /\ { w.word : w \in g_result.valid_words }
             = { word \in CorpusWords : LettersOf(word) \subseteq ConfigLetters(g_result) }
        /\ \A w \in g_result.valid_words :
             w.is_pangram <=> (ConfigLetters(g_result) \subseteq LettersOf(w.word))
        /\ Cardinality(g_result.valid_words)
             = Cardinality({ w.word : w \in g_result.valid_words })

\* A config was returned that holds a pangram and a word that is none.
C10_Witness ==
    /\ g_pc = "returned"
    /\ \E w \in g_result.valid_words : w.is_pangram
    /\ \E w \in g_result.valid_words : ~ w.is_pangram

\* ------------------------------------------------------------------------
\* Properties of the score buckets
\* ------------------------------------------------------------------------

\* The thresholds of a config's score buckets, in bucket order
Thresholds(cfg) == [i \in 1 .. Len(cfg.score_buckets) |-> cfg.score_buckets[i][2]]

\* C11: in every PuzzleConfig the generator returns, the threshold of the
\* last (9th) score bucket equals the maximum score, the sum of score(w)
\* over valid_words.
C11_LastBucketIsMax ==
    g_pc = "returned" =>
        /\ Len(g_result.score_buckets) = 9
        /\ Thresholds(g_result)[9] = SumScores(g_result.valid_words)

\* C12: in every PuzzleConfig the generator returns, the 9 thresholds are
\* strictly increasing in bucket order.
C12_BucketsStrictlyIncrease ==
    g_pc = "returned" =>
        \A i \in 1 .. 8 : Thresholds(g_result)[i] < Thresholds(g_result)[i + 1]

\* ------------------------------------------------------------------------
\* frontend/src/main.rs: Board
\* ------------------------------------------------------------------------

\* The config the server builds for a required letter and other letters
ConfigOf(required, others) ==
    LET rm == letters_bitmask(required)
        lm == bitmask(others)
    IN  BuildConfig(QueryWords(Corpus, QueryMask(lm, rm)), rm, lm)

\* A config decoded from local storage carries whatever flags were stored
FlipFlags(cfg) ==
    [cfg EXCEPT !.valid_words =
        { [w EXCEPT !.is_pangram = ~w.is_pangram] : w \in cfg.valid_words }]

\* load(): 'c' with a d e f as served, and the same as found in storage
\* with other flags
BoardConfigs ==
    { ConfigOf(99, << 97, 100, 101, 102 >>),
      FlipFlags(ConfigOf(99, << 97, 100, 101, 102 >>)) }

\* What the player types:
\* "ace", "face", "faced", "deed", "cafe", "cabs"
Typed ==
    { << 97, 99, 101 >>,
      << 102, 97, 99, 101 >>,
      << 102, 97, 99, 101, 100 >>,
      << 100, 101, 101, 100 >>,
      << 99, 97, 102, 101 >>,
      << 99, 97, 98, 115 >> }

\* The submitted list found in local storage: empty, or << "ace" >>
StoredSubmitted == { << >>, << << 97, 99, 101 >> >> }

\* Vec<String>::contains
VecContains(v, x) == \E i \in 1 .. Len(v) : v[i] = x

\* The permutations of a sequence
Shuffles(v) ==
    { [i \in 1 .. Len(v) |-> v[f[i]]] :
        f \in { g \in [1 .. Len(v) -> 1 .. Len(v)] :
                  \A i, j \in 1 .. Len(v) : g[i] = g[j] => i = j } }

\* submit: the checks in the order of the code, "Accepted" when none fails
FirstFailureMut(word, cfg, submitted) ==
    IF VecContains(submitted, word) THEN "AlreadyGuessed"
    ELSE IF Len(word) < 4 THEN "TooShort"
    ELSE IF ~(\E i \in 1 .. Len(word) : word[i] = cfg.required_letter)
         THEN "MissingRequiredLetter"
    ELSE IF \E i \in 1 .. Len(word) :
              ~(cfg.required_letter = word[i]
                \/ VecContains(cfg.other_letters, word[i]))
         THEN "BadLetters"
    ELSE IF ~HashSetContains(cfg.valid_words, NewWord(word, FALSE))
         THEN "NotInList"
    ELSE "Accepted"

FirstFailureNoMemory(word, cfg, submitted) ==
    IF Len(word) < 4 THEN "TooShort"
    ELSE IF ~(\E i \in 1 .. Len(word) : word[i] = cfg.required_letter)
         THEN "MissingRequiredLetter"
    ELSE IF \E i \in 1 .. Len(word) :
              ~(cfg.required_letter = word[i]
                \/ VecContains(cfg.other_letters, word[i]))
         THEN "BadLetters"
    ELSE IF ~HashSetContains(cfg.valid_words, NewWord(word, FALSE))
         THEN "NotInList"
    ELSE "Accepted"

FirstFailure(word, cfg, submitted) ==
    IF Len(word) < 4 THEN "TooShort"
    ELSE IF VecContains(submitted, word) THEN "AlreadyGuessed"
    ELSE IF ~(\E i \in 1 .. Len(word) : word[i] = cfg.required_letter)
         THEN "MissingRequiredLetter"
    ELSE IF \E i \in 1 .. Len(word) :
              ~(cfg.required_letter = word[i]
                \/ VecContains(cfg.other_letters, word[i]))
         THEN "BadLetters"
    ELSE IF ~HashSetContains(cfg.valid_words, NewWord(word, FALSE))
         THEN "NotInList"
    ELSE "Accepted"

\* candidate.is_pangram = candidate.contains(required_letter)
\*     && other_letters.iter().all(|l| candidate.contains(l))
RecomputedFlagMut(candidate, cfg) ==
    (CHOOSE w \in cfg.valid_words : w.word = candidate.word).is_pangram

RecomputedFlagRequiredOnly(candidate, cfg) ==
    contains(candidate, cfg.required_letter)

RecomputedFlag(candidate, cfg) ==
    /\ contains(candidate, cfg.required_letter)
    /\ \A i \in 1 .. Len(cfg.other_letters) :
         contains(candidate, cfg.other_letters[i])

\* The page opens: config, score and submitted list are loaded
BoardInit ==
    /\ b_config \in BoardConfigs
    /\ b_word = << >>
    /\ b_taken = << >>
    /\ b_submitted \in StoredSubmitted
    /\ b_score = 0
    /\ b_error = "None"

\* bind:value: the player edits the input
set_word(w) ==
    /\ b_word' = w
    /\ UNCHANGED << b_config, b_taken, b_submitted, b_score, b_error, genVars, cacheVars,
                    pureVars, seedVars, buildVars >>

\* on:submit
submit ==
    LET word == b_word
        failure == FirstFailure(word, b_config, b_submitted)
        candidate == NewWord(word, RecomputedFlag(NewWord(word, FALSE), b_config))
    IN  /\ b_word' = << >>
        /\ b_taken' = word
        /\ IF failure # "Accepted"
           THEN /\ b_error' = failure
                /\ UNCHANGED << b_score, b_submitted >>
           ELSE /\ b_score' = b_score + score(candidate)
                /\ b_submitted' = Append(b_submitted, word)
                /\ UNCHANGED b_error
        /\ UNCHANGED << b_config, genVars, cacheVars, pureVars, seedVars, buildVars >>

\* shuffle_letters
shuffle_letters ==
    /\ \E v \in Shuffles(b_config.other_letters) :
         b_config' = [b_config EXCEPT !.other_letters = v]
    /\ UNCHANGED << b_word, b_taken, b_submitted, b_score, b_error, genVars, cacheVars,
                    pureVars, seedVars, buildVars >>

\* use_validation_errors: the timeout set when an error appeared fires
clear_error ==
    /\ b_error # "None"
    /\ b_error' = "None"
    /\ UNCHANGED << b_config, b_word, b_taken, b_submitted, b_score, genVars, cacheVars,
                    pureVars, seedVars, buildVars >>

BoardNext ==
    \/ \E w \in Typed : set_word(w)
    \/ submit
    \/ shuffle_letters
    \/ clear_error

InitBoard ==
    /\ GenInit
    /\ BuildIdle
    /\ CacheInit
    /\ BoardInit
    /\ arg = NoResult
    /\ res = NoResult
    /\ rng = << >>
    /\ runs = {}

SpecBoard == InitBoard /\ [][BoardNext]_vars

\* ------------------------------------------------------------------------
\* Properties of the Board
\* ------------------------------------------------------------------------

\* The five checks, each on its own
TooShort(word) == Len(word) < 4

AlreadyGuessed(word, submitted) ==
    word \in { submitted[i] : i \in 1 .. Len(submitted) }

MissingRequiredLetter(word, cfg) == cfg.required_letter \notin LettersOf(word)

BadLetters(word, cfg) == ~(LettersOf(word) \subseteq ConfigLetters(cfg))

NotInList(word, cfg) == word \notin { w.word : w \in cfg.valid_words }

\* C13: submit reports the first failing check in the order TooShort,
\* AlreadyGuessed, MissingRequiredLetter, BadLetters, NotInList, and accepts
\* the word when no check fails.
C13_FirstFailureInOrder ==
    [][submit =>
        LET w == b_word
            c == b_config
            s == b_submitted
        IN  /\ TooShort(w) => b_error' = "TooShort"
            /\ ~TooShort(w) /\ AlreadyGuessed(w, s) => b_error' = "AlreadyGuessed"
            /\ ~TooShort(w) /\ ~AlreadyGuessed(w, s) /\ MissingRequiredLetter(w, c)
                 => b_error' = "MissingRequiredLetter"
            /\ ~TooShort(w) /\ ~AlreadyGuessed(w, s) /\ ~MissingRequiredLetter(w, c)
                 /\ BadLetters(w, c)
                 => b_error' = "BadLetters"
            /\ ~TooShort(w) /\ ~AlreadyGuessed(w, s) /\ ~MissingRequiredLetter(w, c)
                 /\ ~BadLetters(w, c) /\ NotInList(w, c)
                 => b_error' = "NotInList"
            /\ (TooShort(w) \/ AlreadyGuessed(w, s) \/ MissingRequiredLetter(w, c)
                  \/ BadLetters(w, c) \/ NotInList(w, c))
                 => UNCHANGED << b_score, b_submitted >>
            /\ ~(TooShort(w) \/ AlreadyGuessed(w, s) \/ MissingRequiredLetter(w, c)
                  \/ BadLetters(w, c) \/ NotInList(w, c))
                 => b_submitted' = Append(b_submitted, w)
    ]_vars

\* A word that is too short and already in the submitted list was submitted
\* and TooShort is shown.
C13_Witness ==
    /\ TooShort(b_taken)
    /\ b_taken # << >>
    /\ AlreadyGuessed(b_taken, b_submitted)
    /\ b_error = "TooShort"

\* ------------------------------------------------------------------------
\* The library functions, called on their own
\* ------------------------------------------------------------------------

\* The texts Word::score is called with: every text of a and b up to
\* MaxWordLen characters
ScoreTexts ==
    UNION { [1 .. n -> { REFERENCE_ORD, REFERENCE_ORD + 1 }] : n \in 0 .. MaxWordLen }

\* The Words that are compared: "face" and "faced" under either flag
EqWords ==
    { NewWord(t, f) : t \in { << 102, 97, 99, 101 >>, << 102, 97, 99, 101, 100 >> },
                      f \in BOOLEAN }

\* The masks letters::from_bitmask is called with: the small masks, masks
\* with a bit at or above position 26, and a negative one
FromMasks == (0 .. 15) \cup { 2 ^ 25, 2 ^ 25 + 1, 2 ^ 26, 2 ^ 26 + 1, 2 ^ 30, -1 }

\* The words that go through bitmask and vec_from_bitmask: every text of
\* a, b and z up to three characters, "bacchus" and "bacchu"
VecWords ==
    UNION { [1 .. n -> { 97, 98, 122 }] : n \in 0 .. 3 }
    \cup { << 98, 97, 99, 99, 104, 117, 115 >>, << 98, 97, 99, 99, 104, 117 >> }

\* Date::getTimezoneOffset() in the zones of the world: the minutes from
\* local time to UTC, a multiple of 15 between UTC+14:00 and UTC-12:00
TzMinutes == { 15 * q : q \in -56 .. 48 }

PureArgs ==
    { [fn |-> "score", word |-> t, is_pangram |-> f] : t \in ScoreTexts, f \in BOOLEAN }
    \cup { [fn |-> "roundtrip", letter |-> c] : c \in LowerCase }
    \cup { [fn |-> "eq", w1 |-> w1, w2 |-> w2] : w1 \in EqWords, w2 \in EqWords }
    \cup { [fn |-> "from_bitmask", bm |-> bm] : bm \in FromMasks }
    \cup { [fn |-> "vec", word |-> w] : w \in VecWords }
    \cup { [fn |-> "tz", minutes_to_utc |-> m] : m \in TzMinutes }

\* letters::from_bitmask on any i32: ilog2 panics on a mask that is not
\* positive, and the index into LETTERS panics from 26 on
from_bitmask_outcome(bm) ==
    IF bm <= 0 THEN Panicked
    ELSE IF ilog2(bm) >= 26 THEN Panicked
    ELSE [letter |-> LETTERS[ilog2(bm) + 1]]

\* x as u64 on a float: negative values saturate to 0
as_u64(x) == IF x < 0 THEN 0 ELSE x

\* {:02}: at least two decimal digits
RECURSIVE Decimal(_)
Decimal(n) == IF n < 10 THEN << 48 + n >> ELSE Decimal(n \div 10) \o << 48 + (n % 10) >>

Pad2(n) == IF n < 10 THEN << 48 >> \o Decimal(n) ELSE Decimal(n)

\* get_current_tz: format!("{}{:02}:{:02}", sign, offset_hours, offset_minutes)
get_current_tz(minutes_to_utc) ==
    LET is_behind == minutes_to_utc >= 0
        offset_hours == as_u64(minutes_to_utc \div 60)
        offset_minutes == as_u64(minutes_to_utc) % 60
    IN  << (IF is_behind THEN 45 ELSE 43) >> \o Pad2(offset_hours)
            \o << 58 >> \o Pad2(offset_minutes)

\* query.tz.parse::<FixedOffset>(): the minutes east of UTC of "+HH:MM" or
\* "-HH:MM", an error on any other text
ParseFixedOffset(str) ==
    IF /\ Len(str) = 6
       /\ str[1] \in { 43, 45 }
       /\ str[4] = 58
       /\ \A i \in { 2, 3, 5, 6 } : str[i] \in 48 .. 57
       /\ (str[5] - 48) * 10 + (str[6] - 48) < 60
    THEN [east |-> (IF str[1] = 43 THEN 1 ELSE -1)
                     * (((str[2] - 48) * 10 + (str[3] - 48)) * 60
                        + (str[5] - 48) * 10 + (str[6] - 48))]
    ELSE Panicked

\* Word::new(word, is_pangram).score()
call_score ==
    /\ arg.fn = "score"
    /\ res = NoResult
    /\ res' = [value |-> score(NewWord(arg.word, arg.is_pangram))]
    /\ UNCHANGED << arg, genVars, cacheVars, boardVars, seedVars, buildVars >>

\* from_bitmask(&bitmask(&letter))
call_roundtrip ==
    /\ arg.fn = "roundtrip"
    /\ res = NoResult
    /\ res' = [mask |-> letters_bitmask(arg.letter),
               back |-> letters_from_bitmask(letters_bitmask(arg.letter))]
    /\ UNCHANGED << arg, genVars, cacheVars, boardVars, seedVars, buildVars >>

\* w1 == w2, the two hashes, and the lookup of w2 in a HashSet holding w1
call_eq ==
    /\ arg.fn = "eq"
    /\ res = NoResult
    /\ res' = [eq |-> WordEq(arg.w1, arg.w2),
               h1 |-> WordHash(arg.w1),
               h2 |-> WordHash(arg.w2),
               found |-> HashSetContains({ arg.w1 }, arg.w2)]
    /\ UNCHANGED << arg, genVars, cacheVars, boardVars, seedVars, buildVars >>

\* letters::from_bitmask(&bm)
call_from_bitmask ==
    /\ arg.fn = "from_bitmask"
    /\ res = NoResult
    /\ res' = from_bitmask_outcome(arg.bm)
    /\ UNCHANGED << arg, genVars, cacheVars, boardVars, seedVars, buildVars >>

\* vec_from_bitmask(&bitmask(word))
call_vec ==
    /\ arg.fn = "vec"
    /\ res = NoResult
    /\ res' = [vec |-> vec_from_bitmask(bitmask(arg.word))]
    /\ UNCHANGED << arg, genVars, cacheVars, boardVars, seedVars, buildVars >>

\* get_current_tz() in the browser, and the handler's parse of the text
call_tz ==
    /\ arg.fn = "tz"
    /\ res = NoResult
    /\ res' = [tz |-> get_current_tz(arg.minutes_to_utc),
               parsed |-> ParseFixedOffset(get_current_tz(arg.minutes_to_utc))]
    /\ UNCHANGED << arg, genVars, cacheVars, boardVars, seedVars, buildVars >>

PureNext ==
    \/ call_score
    \/ call_roundtrip
    \/ call_eq
    \/ call_from_bitmask
    \/ call_vec
    \/ call_tz

InitPure ==
    /\ GenInit
    /\ BuildIdle
    /\ CacheInit
    /\ b_config = NoConfig
    /\ b_word = << >>
    /\ b_taken = << >>
    /\ b_submitted = << >>
    /\ b_score = 0
    /\ b_error = "None"
    /\ arg \in PureArgs
    /\ res = NoResult
    /\ rng = << >>
    /\ runs = {}

SpecPure == InitPure /\ [][PureNext]_vars

\* C14: score(word) is 1 when the word has exactly 4 characters and
\* otherwise its length, plus 7 if it is a pangram: a 4-letter non-pangram
\* scores 1, a 7-letter pangram 14, an 8-letter non-pangram 8.
C14_Score ==
    (arg.fn = "score" /\ res # NoResult) =>
        /\ Len(arg.word) = 4 => res.value = 1
        /\ Len(arg.word) # 4 /\ arg.is_pangram => res.value = Len(arg.word) + 7
        /\ Len(arg.word) # 4 /\ ~arg.is_pangram => res.value = Len(arg.word)
        /\ Len(arg.word) = 7 /\ arg.is_pangram => res.value = 14
        /\ Len(arg.word) = 8 /\ ~arg.is_pangram => res.value = 8

\* A 7-letter pangram was scored 14
C14_Witness ==
    /\ arg.fn = "score"
    /\ res # NoResult
    /\ Len(arg.word) = 7
    /\ arg.is_pangram
    /\ res.value = 14

\* The positions of the bits that are set in a mask
BitsOf(bm) == { i \in 0 .. 30 : (bm \div (2 ^ i)) % 2 = 1 }

\* C20: for every lowercase letter c, letters::bitmask(c) has exactly one
\* bit set, at the 0-indexed alphabet position of c, and
\* letters::from_bitmask(letters::bitmask(c)) is c.
C20_LetterRoundTrip ==
    (arg.fn = "roundtrip" /\ res # NoResult) =>
        /\ BitsOf(res.mask) = { arg.letter - 97 }
        /\ res.back = arg.letter

\* 'z' went through bitmask and from_bitmask
C20_Witness ==
    /\ arg.fn = "roundtrip"
    /\ arg.letter = 122
    /\ res # NoResult
    /\ res.back = 122

\* C19: two Words with the same text are equal and hash alike whatever
\* their flags, and Words with different texts are not equal; looking up
\* Word(text, false) in a set finds the entry stored as Word(text, true).
C19_EqualityByText ==
    (arg.fn = "eq" /\ res # NoResult) =>
        /\ arg.w1.word = arg.w2.word => res.eq /\ res.h1 = res.h2 /\ res.found
        /\ arg.w1.word # arg.w2.word => ~res.eq /\ ~res.found

\* Word("face", false) was looked up in a set that holds Word("face", true)
C19_Witness ==
    /\ arg.fn = "eq"
    /\ res # NoResult
    /\ arg.w1.word = arg.w2.word
    /\ arg.w1.is_pangram
    /\ ~arg.w2.is_pangram
    /\ res.found

\* C15: a word that passes the five checks is accepted with is_pangram
\* recomputed as "the word contains the required letter and every one of
\* the other letters", whatever flag the dictionary word carries, and the
\* score grows by score(word) under that flag.
C15_AcceptedPoints ==
    [][(submit /\ b_submitted' # b_submitted) =>
        LET pangram == ConfigLetters(b_config) \subseteq LettersOf(b_word)
            points  == IF Len(b_word) = 4 THEN 1
                       ELSE Len(b_word) + (IF pangram THEN 7 ELSE 0)
        IN  /\ b_score' = b_score + points
            /\ b_submitted' = Append(b_submitted, b_word)
    ]_vars

\* "faced" was accepted as the first word and scored 5 + 7 against a
\* dictionary entry that is not flagged as a pangram
C15_Witness ==
    /\ b_taken = << 102, 97, 99, 101, 100 >>
    /\ b_submitted # << >>
    /\ b_submitted[Len(b_submitted)] = b_taken
    /\ \E w \in b_config.valid_words : w.word = b_taken /\ ~w.is_pangram
    /\ b_score = 12

\* ------------------------------------------------------------------------
\* Failures of the corpus store
\* ------------------------------------------------------------------------

\* C16: when the corpus store fails during generation (acquiring the
\* connection or running the query), get_config returns the error to its
\* caller, publishes nothing and leaves every cache entry as it was; the
\* caller gets no config in its place.
C16_StoreFailurePropagates ==
    [][\A p \in Procs :
         (Fetching(p) /\ outcome'[p] = "error") =>
             /\ cache' = cache
             /\ readers' = readers
             /\ pc'[p] = "idle"
             /\ ret'[p] = NoConfig
    ]_vars

\* A call ended with the store's error while the cache holds an entry that
\* another call published
C16_Witness ==
    \E p \in Procs :
        /\ outcome[p] = "error"
        /\ pc[p] = "idle"
        /\ \E o \in Offsets : cache[o] # NoEntry

\* ------------------------------------------------------------------------
\* server/src/puzzle_config.rs: the seed of the random source
\* ------------------------------------------------------------------------

\* Utc::now().timestamp() counts seconds; the clock counts hours
SecondsPerHour == 3600

\* day_64
day_64(now_) == now_ * SecondsPerHour

\* The instants the clock shows, and the seeds day_64 gives at them
Instants == StartHour .. (StartHour + MaxElapsed)

Seeds == { day_64(t) : t \in Instants }

\* What a seeded random source gives to the first two passes of the loop
Streams == { << d1, d2 >> : d1 \in DrawSeqs, d2 \in DrawSeqs }

Looping == [looping |-> TRUE]

\* fetch on a given stream: the passes of the loop in turn, until a query
\* returns rows or random_range panics; Looping when the stream is used up
\* before that
RECURSIVE RunOn(_, _)
RunOn(stream, letter_mask_) ==
    IF stream = << >> THEN Looping
    ELSE LET d == Head(stream)
             rm == letters_bitmask(d.required)
             lm == DrawOthers(letter_mask_, d.picks)
             rows == QueryWords(Corpus, QueryMask(lm, rm))
         IN  IF DrawPanics(d) THEN Panicked
             ELSE IF Accepts(rows) THEN BuildConfig(rows, rm, lm)
             ELSE RunOn(Tail(stream), lm)

\* StdRng::seed_from_u64 is some fixed function of the seed
SeedInit ==
    /\ rng \in [Seeds -> Streams]
    /\ runs = {}

\* fetch, with a store that answers: seeded by day_64() at the instant of
\* the call
fetch_run ==
    /\ LET seed == day_64(clock)
       IN  runs' = runs \cup { [at |-> clock, seed |-> seed, passes |-> rng[seed],
                                result |-> RunOn(rng[seed], 0)] }
    /\ UNCHANGED << rng, genVars, cacheVars, boardVars, pureVars, buildVars >>

SeedNext == Tick \/ fetch_run

InitSeed ==
    /\ GenInit
    /\ BuildIdle
    /\ CacheInit
    /\ b_config = NoConfig
    /\ b_word = << >>
    /\ b_taken = << >>
    /\ b_submitted = << >>
    /\ b_score = 0
    /\ b_error = "None"
    /\ arg = NoResult
    /\ res = NoResult
    /\ SeedInit

SpecSeed == InitSeed /\ [][SeedNext]_vars

\* The UTC epoch day of an instant
UtcDay(t) == t \div HoursPerDay

\* C17: two generator runs started on the same UTC calendar day draw the
\* same sequence of candidate letter sets and return the same PuzzleConfig.
C17_SameDaySameRun ==
    \A r1, r2 \in runs :
        UtcDay(r1.at) = UtcDay(r2.at) =>
            /\ r1.passes = r2.passes
            /\ r1.result = r2.result

\* ------------------------------------------------------------------------
\* Termination of the generator
\* ------------------------------------------------------------------------

\* The random source is fair: a letter that can be drawn again and again
\* is drawn again and again, as the required letter and as another letter
FairDraws ==
    /\ \A c \in DrawChars :
         SF_vars(GenDrawRequired /\ required_char' = c)
    /\ \A c \in DrawChars :
         SF_vars(GenDrawOther /\ drawn' = drawn + 1
                              /\ letter_mask' = OrLetter(letter_mask, c))

\* The generator with a fair random source; every step that can be taken
\* is taken
SpecGenFair == InitGen /\ [][GenNext]_vars /\ WF_vars(GenNext) /\ FairDraws

\* C18: the loop has no cap on its passes, and with a corpus that holds a
\* pangram of a 7-letter set and fair draws a run whose store does not
\* fail eventually returns a PuzzleConfig.
C18_EventuallyReturns == <>(g_pc = "returned" \/ g_pc = "error")

\* ------------------------------------------------------------------------
\* Properties of the codec and of the timezone text
\* ------------------------------------------------------------------------

\* C21: letters::from_bitmask called with a mask that has no bit set or
\* more than one bit set aborts instead of returning a letter.
C21_BadMaskAborts ==
    (arg.fn = "from_bitmask" /\ res # NoResult /\ arg.bm >= 0
       /\ Cardinality(BitsOf(arg.bm)) # 1)
        => res = Panicked

\* C22: for every lowercase word w, vec_from_bitmask(bitmask(w)) lists the
\* distinct letters of w in ascending alphabetical order, one entry each.
C22_VecRoundTrip ==
    (arg.fn = "vec" /\ res # NoResult) =>
        /\ { res.vec[i] : i \in 1 .. Len(res.vec) } = LettersOf(arg.word)
        /\ \A i \in 1 .. Len(res.vec) - 1 : res.vec[i] < res.vec[i + 1]

\* "bacchus" gave a, b, c, h, s, u
C22_Witness ==
    /\ arg.fn = "vec"
    /\ arg.word = << 98, 97, 99, 99, 104, 117, 115 >>
    /\ res # NoResult
    /\ res.vec = << 97, 98, 99, 104, 115, 117 >>

\* C30: for every browser offset in whole minutes, get_current_tz gives the
\* text +HH:MM or -HH:MM of the local offset from UTC, which the server
\* parses to that offset.
C30_TzTextIsLocalOffset ==
    (arg.fn = "tz" /\ res # NoResult) =>
        /\ res.parsed # Panicked
        /\ res.parsed.east = - arg.minutes_to_utc

\* ------------------------------------------------------------------------
\* Properties of the passes of the generation loop
\* ------------------------------------------------------------------------

\* C24: every pass of the loop, a retry after a rejected draw included,
\* sends its query with the mask of that pass's required letter and the
\* OR of the masks of the six letters drawn in that pass, and nothing of
\* an earlier pass.
C24_MaskOfThisPassOnly ==
    \A p \in Procs :
        pc[p] = "query" =>
            \E d \in DrawSeqs :
                /\ f_required_mask[p] = letters_bitmask(d.required)
                /\ f_letter_mask[p] = DrawOthers(0, d.picks)

\* C26: whatever the required letter, 'a' and 'z' included, the draw of
\* the six other letters completes; the generator does not abort on an
\* empty range below or above the required letter.
C26_DrawNeverAborts == g_pc # "panicked"

\* C27: every word in a returned PuzzleConfig's valid_words contains
\* required_letter and is accepted when submitted as the first word.
C27_ValidWordsAccepted ==
    g_pc = "returned" =>
        \A w \in g_result.valid_words :
            /\ contains(w, g_result.required_letter)
            /\ FirstFailure(w.word, g_result, << >>) = "Accepted"

\* ------------------------------------------------------------------------
\* Properties of the configs handed out
\* ------------------------------------------------------------------------

\* C29: under any interleaving, the config a call of get_config returns
\* is the config of a cache entry whose ttl is greater than or equal to
\* the now that call read at its start.
C29_ReturnedNotExpired ==
    \A p \in Procs :
        pc[p] = "holding" =>
            /\ cache[tz[p]] # NoEntry
            /\ ret[p] = cache[tz[p]].config
            /\ cache[tz[p]].ttl >= now[p]

\* A call that read its clock after a day had passed replaced the entry
\* of that offset and holds the new one, while the clock has moved on
C29_Witness ==
    \E p \in Procs :
        /\ pc[p] = "holding"
        /\ outcome[p] = "replaced"
        /\ now[p] > 0
        /\ clock > now[p]

\* ------------------------------------------------------------------------
\* Properties of a session on the Board
\* ------------------------------------------------------------------------

\* The session did not start from a stored list: the stored word "ace" is
\* too short for submit to push it
StartedEmpty == ~VecContains(b_submitted, << 97, 99, 101 >>)

\* The points submit awarded for the words of a list
RECURSIVE PointsOf(_, _)
PointsOf(submitted, cfg) ==
    IF submitted = << >> THEN 0
    ELSE score(NewWord(Head(submitted),
                       RecomputedFlag(NewWord(Head(submitted), FALSE), cfg)))
         + PointsOf(Tail(submitted), cfg)

\* C28: in a session that started with score 0 and an empty list, after
\* any sequence of submissions the submitted list has no duplicates and
\* holds only words of valid_words that contain the required letter, the
\* score is the sum of the points awarded for those words, and a rejected
\* submission changes neither the score nor the list.
C28_SessionConsistent ==
    [][StartedEmpty =>
        /\ \A i, j \in 1 .. Len(b_submitted') :
             b_submitted'[i] = b_submitted'[j] => i = j
        /\ \A i \in 1 .. Len(b_submitted') :
             /\ ~NotInList(b_submitted'[i], b_config')
             /\ ~MissingRequiredLetter(b_submitted'[i], b_config')
        /\ b_score' = PointsOf(b_submitted', b_config')
        /\ (/\ submit
            /\ \/ TooShort(b_word)
               \/ AlreadyGuessed(b_word, b_submitted)
               \/ MissingRequiredLetter(b_word, b_config)
               \/ BadLetters(b_word, b_config)
               \/ NotInList(b_word, b_config))
           => (b_score' = b_score /\ b_submitted' = b_submitted)
    ]_vars

\* "face" and "faced" were accepted for 1 + 12 points, and "faced"
\* submitted again was rejected
C28_Witness ==
    /\ b_submitted = << << 102, 97, 99, 101 >>, << 102, 97, 99, 101, 100 >> >>
    /\ b_score = 13
    /\ b_taken = << 102, 97, 99, 101, 100 >>
    /\ b_error = "AlreadyGuessed"

\* ------------------------------------------------------------------------
\* The generator and the Board together
\* ------------------------------------------------------------------------

\* serde_json::to_string(&config): every field of the PuzzleConfig and of
\* its Words is written out
to_json(cfg) ==
    [ valid_words     |-> { << w.word, w.chars, w.is_pangram >> : w \in cfg.valid_words },
      score_buckets   |-> cfg.score_buckets,
      required_letter |-> << cfg.required_letter >>,
      other_letters   |-> [i \in 1 .. Len(cfg.other_letters) |-> << cfg.other_letters[i] >>] ]

\* resp.json(): the fields are read back as they were written
from_json(json) ==
    [ valid_words     |-> { [word |-> t[1], is_pangram |-> t[3], chars |-> t[2]] :
                              t \in json.valid_words },
      score_buckets   |-> json.score_buckets,
      required_letter |-> json.required_letter[1],
      other_letters   |-> [i \in 1 .. Len(json.other_letters) |-> json.other_letters[i][1]] ]

\* load(): nothing in storage, the config is fetched from the server
load_fetched ==
    /\ g_pc = "returned"
    /\ b_config = NoConfig
    /\ b_config' = from_json(to_json(g_result))
    /\ UNCHANGED << b_word, b_taken, b_submitted, b_score, b_error, genVars, cacheVars,
                    pureVars, seedVars, buildVars >>

\* The player types a word of the corpus
play_word ==
    /\ b_config # NoConfig
    /\ Len(b_submitted) < MaxGuesses
    /\ \E w \in CorpusWords : set_word(w)

\* on:submit of the Board that was rendered with the loaded config
play_submit ==
    /\ b_config # NoConfig
    /\ submit

PlayNext ==
    \/ GenNext
    \/ load_fetched
    \/ play_word
    \/ play_submit

SpecPlay == InitGen /\ [][PlayNext]_vars

\* C25: for every generated PuzzleConfig and every word of valid_words
\* that contains the required letter, the flag the validator recomputes
\* when it accepts the word equals the is_pangram the generator attached,
\* and the points earned equal the word's score counted in max_score.
C25_ValidatorAgreesWithGenerator ==
    [][(play_submit /\ b_submitted' # b_submitted) =>
        \E w \in g_result.valid_words :
            /\ w.word = b_word
            /\ contains(w, g_result.required_letter)
            /\ RecomputedFlag(NewWord(b_word, FALSE), b_config) = w.is_pangram
            /\ b_score' - b_score = score(w)
    ]_vars

\* A pangram of the generated config and a longer word that is none were
\* accepted
C25_Witness ==
    /\ g_pc = "returned"
    /\ Len(b_submitted) = 2
    /\ \E w1, w2 \in g_result.valid_words :
         /\ w1.is_pangram /\ ~w2.is_pangram /\ Len(w2.word) > 4
         /\ b_submitted = << w1.word, w2.word >>
         /\ b_score = score(w1) + score(w2)

\* ------------------------------------------------------------------------
\* build-word-db
\* ------------------------------------------------------------------------

\* char::is_ascii_alphabetic
is_ascii_alphabetic(c) == c \in (65 .. 90) \cup (97 .. 122)

\* char::is_whitespace on the ASCII characters
is_whitespace(c) == c \in { 9, 10, 11, 12, 13, 32 }

RECURSIVE trim_start(_)
trim_start(str) ==
    IF str # << >> /\ is_whitespace(Head(str)) THEN trim_start(Tail(str)) ELSE str

RECURSIVE trim_end(_)
trim_end(str) ==
    IF str # << >> /\ is_whitespace(str[Len(str)])
    THEN trim_end(SubSeq(str, 1, Len(str) - 1))
    ELSE str

\* str::trim
trim(str) == trim_end(trim_start(str))

\* str::to_ascii_lowercase
to_ascii_lowercase(str) ==
    [i \in 1 .. Len(str) |-> IF str[i] \in 65 .. 90 THEN str[i] + 32 ELSE str[i]]

\* The lines of a words file, each with its line feed:
\* "face", "Deed", "abc", "ab", "it's" and the empty line
BuildLines ==
    { << 102, 97, 99, 101, 10 >>,
      << 68, 101, 101, 100, 10 >>,
      << 97, 98, 99, 10 >>,
      << 97, 98, 10 >>,
      << 105, 116, 39, 115, 10 >>,
      << 10 >> }

BuildFiles == UNION { [1 .. n -> BuildLines] : n \in 0 .. MaxLines }

\* The row upsert_words binds for a word
UpsertRow(word) ==
    [word |-> word, letter_mask |-> bitmask(word), length |-> Len(word)]

\* insert into words ... on conflict do nothing: a word that is in the
\* table keeps its row
RECURSIVE upsert_words(_, _)
upsert_words(db, words) ==
    IF words = << >> THEN db
    ELSE upsert_words(IF \E r \in db : r.word = Head(words)
                      THEN db
                      ELSE db \cup { UpsertRow(Head(words)) },
                      Tail(words))

\* main up to the loop: the file is opened, the connection is made, batch
\* and line are empty
BuildInit ==
    /\ w_file \in BuildFiles
    /\ w_batch_size \in { 1, 2 }
    /\ w_pos = 0
    /\ w_line = << >>
    /\ w_batch = << >>
    /\ w_db = {}
    /\ w_pc = "loop"

\* Whether the loop body pushes the line buffer
Pushes(line) ==
    /\ ~(Len(line) < 4)
    /\ ~(\E i \in 1 .. Len(trim(line)) : ~is_ascii_alphabetic(trim(line)[i]))

\* One pass of the while loop: read_line appends the next line of the
\* file to the buffer; a buffer that fails a check is left as it is by
\* continue, otherwise the word is pushed, a full batch is upserted, and
\* the buffer is cleared
main_iteration ==
    /\ w_pc = "loop"
    /\ w_pos < Len(w_file)
    /\ LET line  == w_line \o w_file[w_pos + 1]
           batch == Append(w_batch, to_ascii_lowercase(trim(line)))
       IN  /\ w_pos' = w_pos + 1
           /\ IF ~Pushes(line)
              THEN /\ w_line' = line
                   /\ UNCHANGED << w_batch, w_db >>
              ELSE /\ w_line' = << >>
                   /\ IF Len(batch) = w_batch_size
                      THEN /\ w_db' = upsert_words(w_db, batch)
                           /\ w_batch' = << >>
                      ELSE /\ w_batch' = batch
                           /\ UNCHANGED w_db
    /\ UNCHANGED << w_file, w_batch_size, w_pc, genVars, cacheVars, boardVars,
                    pureVars, seedVars >>

\* The pass in which upsert_words fails: main returns the error
main_upsert_fails ==
    /\ w_pc = "loop"
    /\ w_pos < Len(w_file)
    /\ LET line == w_line \o w_file[w_pos + 1]
       IN  /\ Pushes(line)
           /\ Len(w_batch) + 1 = w_batch_size
           /\ w_line' = line
           /\ w_batch' = Append(w_batch, to_ascii_lowercase(trim(line)))
    /\ w_pos' = w_pos + 1
    /\ w_pc' = "failed"
    /\ UNCHANGED << w_file, w_batch_size, w_db, genVars, cacheVars, boardVars,
                    pureVars, seedVars >>

\* read_line returns Ok(0) at the end of the file: the loop ends, "Done"
\* is printed and main returns
main_done ==
    /\ w_pc = "loop"
    /\ w_pos = Len(w_file)
    /\ w_pc' = "done"
    /\ UNCHANGED << w_file, w_batch_size, w_pos, w_line, w_batch, w_db, genVars,
                    cacheVars, boardVars, pureVars, seedVars >>

BuildNext ==
    \/ main_iteration
    \/ main_upsert_fails
    \/ main_done

InitBuild ==
    /\ GenInit
    /\ CacheInit
    /\ BuildInit
    /\ b_config = NoConfig
    /\ b_word = << >>
    /\ b_taken = << >>
    /\ b_submitted = << >>
    /\ b_score = 0
    /\ b_error = "None"
    /\ arg = NoResult
    /\ res = NoResult
    /\ rng = << >>
    /\ runs = {}

SpecBuild == InitBuild /\ [][BuildNext]_vars

\* The text of a line of the file, without its line feed
TextOf(line) == SubSeq(line, 1, Len(line) - 1)

\* C23: when build-word-db has processed its input file, the words in
\* the table are exactly the lower-cased lines of at least 4 letters that
\* consist of Latin letters only, lines after a rejected line and lines
\* of the last, partly filled batch included.
C23_InsertsQualifyingLines ==
    w_pc = "done" =>
        { r.word : r \in w_db }
          = { to_ascii_lowercase(TextOf(w_file[i])) :
                i \in { j \in 1 .. Len(w_file) :
                          /\ Len(TextOf(w_file[j])) >= 4
                          /\ \A k \in 1 .. Len(TextOf(w_file[j])) :
                               is_ascii_alphabetic(TextOf(w_file[j])[k]) } }

====
